---- MODULE Spec2Model ----
(***************************************************************************)
(* State-machine model of the system health monitor of                     *)
(* scripts/windows_system_info_enhanced.py (class SystemMonitor, the       *)
(* definition at line 74, which is the one the module exports).            *)
(*                                                                         *)
(* One process runs monitoring cycles.  A cycle is the body of             *)
(* run_monitoring_cycle: collect, store, export, monitor services (which   *)
(* collects again and raises one alert per stopped service).  The two      *)
(* SQLite tables are the sequences system_metrics and alerts.  Readings of *)
(* the host (CPU, memory, partitions, services) and the outcome of each    *)
(* database and file operation are inputs of the step that performs it.    *)
(*                                                                         *)
(* Around the cycle: the scheduler loop of start_continuous_monitoring and *)
(* the module body of scripts/service_wrapper.py (variable sched), the     *)
(* NotificationManager of scripts/notifications.py (variable manager), and *)
(* the readers of the database, generate_report and scripts/dashboard.py   *)
(* (variable response).  A writer run statement by statement keeps the     *)
(* rows of its open transaction in txn.  Two other scripts are modelled on *)
(* their own: the health report of scripts/windows_automation_project.py   *)
(* (variable health) and monitor_service of scripts/windows_services.py    *)
(* (variable service_check).                                               *)
(***************************************************************************)
EXTENDS Integers, Sequences, FiniteSets, TLC

VARIABLES
    config,          \* self.config, as returned by _load_config
    pc,              \* position of the process inside run_monitoring_cycle
    now,             \* the wall clock read by datetime.now()
    info,            \* the local `info` of run_monitoring_cycle (NoInfo outside a cycle)
    system_metrics,  \* rows of table system_metrics, in insertion order
    alerts,          \* rows of table alerts, in insertion order
    pending,         \* items of info['services'] monitor_services has yet to visit
    warnings,        \* per collection of the cycle in progress, the warnings _check_thresholds logged
    hist,            \* per started cycle: what monitor_services saw and what send_alert returned
    sched,           \* where the process is outside a cycle, and the job of the schedule module
    manager,         \* a NotificationManager under construction or in use
    response,        \* what the last reader of the database returned
    txn,             \* rows inserted on the writer's connection and not yet committed
    health,          \* WindowsSystemHealthMonitor: the metrics collected and the report made of them
    service_check    \* WindowsServiceManager.monitor_service: its arguments, loop position and result

vars == <<config, pc, now, info, system_metrics, alerts, pending, warnings, hist,
          sched, manager, response, txn, health, service_check>>

\* The state of the notifications module, of the readers and of the other
\* scripts, and the open transaction of a writer stopped between its insert
\* and its commit: no step of a cycle that stores in one step touches them.
outside == <<manager, response, txn, health, service_check>>

-----------------------------------------------------------------------------
(* Bounds of the model *)

\* Number of monitoring cycles a behaviour runs.
MaxCycles == 2

-----------------------------------------------------------------------------
(* Configuration: _load_config *)

DefaultCpuThreshold == 90
DefaultMemoryThreshold == 85
DefaultIntervalMinutes == 5

\* monitoring.critical_services.  The default list of the source has four
\* names; the model keeps the first two, every name is treated alike.
CriticalServices == <<"WinRM", "Dhcp">>

ServiceNames == {CriticalServices[i] : i \in 1..Len(CriticalServices)}

default_config ==
    [monitoring |-> [interval_minutes |-> DefaultIntervalMinutes,
                     critical_services |-> CriticalServices,
                     cpu_threshold |-> DefaultCpuThreshold,
                     memory_threshold |-> DefaultMemoryThreshold],
     alerting   |-> [enabled |-> FALSE, email_fields |-> TRUE],
     export     |-> [auto_export |-> TRUE]]

\* dict.update: a top-level key of the user file replaces the default section whole.
DictUpdate(base, other) ==
    [k \in (DOMAIN base) \cup (DOMAIN other) |->
        IF k \in DOMAIN other THEN other[k] ELSE base[k]]

\* A config file: found or not, and the mapping yaml.safe_load returns.
LoadConfig(file) ==
    IF file.found THEN DictUpdate(default_config, file.content) ELSE default_config

\* The mapping an empty file loads as.
EmptyMapping == [k \in {} |-> {}]

\* The config files a monitor is constructed from: a missing one, one that
\* enables alerting, one that enables alerting without the e-mail fields and
\* turns the export off.
UserFiles ==
    { [found |-> FALSE, content |-> EmptyMapping],
      [found |-> TRUE,
       content |-> [alerting |-> [enabled |-> TRUE, email_fields |-> TRUE]]],
      [found |-> TRUE,
       content |-> [alerting |-> [enabled |-> TRUE, email_fields |-> FALSE],
                    export |-> [auto_export |-> FALSE]]] }

-----------------------------------------------------------------------------
(* Collection: get_windows_system_info, check_windows_services,            *)
(* _check_thresholds                                                       *)

\* check_windows_services: one entry per name; a failed query reads "Not Found".
CheckWindowsServices(service_names, wmi) ==
    [s \in {service_names[i] : i \in 1..Len(service_names)} |->
        IF wmi[s] = "raise" THEN "Not Found" ELSE wmi[s]]

\* _check_thresholds comparing with >= in place of >.
CheckThresholdsInclusive(i, cfg) ==
    (IF i.cpu_percent >= cfg.monitoring.cpu_threshold
        THEN {"High CPU usage"} ELSE {})
    \cup
    (IF i.memory_percent >= cfg.monitoring.memory_threshold
        THEN {"High memory usage"} ELSE {})

\* Warnings _check_thresholds logs for a snapshot.
CheckThresholds(i, cfg) ==
    (IF i.cpu_percent > cfg.monitoring.cpu_threshold
        THEN {"High CPU usage"} ELSE {})
    \cup
    (IF i.memory_percent > cfg.monitoring.memory_threshold
        THEN {"High memory usage"} ELSE {})

\* One psutil.disk_usage call: its percent, or an exception.
Usage(percent) == [raised |-> FALSE, percent_used |-> percent]
UsageRaises == [raised |-> TRUE, percent_used |-> 0]

\* The entries get_windows_system_info appends to disk_partitions: one per
\* partition whose psutil.disk_usage call succeeded, in order.
ReadPartitions(parts) ==
    LET good == SelectSeq(parts, LAMBDA p : ~p.raised)
    IN  [k \in 1..Len(good) |-> [percent_used |-> good[k].percent_used]]

\* A probe is one reading of the host: fail names the read that raised
\* outside any try block ("none" when all succeeded).
CollectRaises(probe) == probe.fail # "none"

\* The dictionary get_windows_system_info returns when nothing raised.
CollectInfo(probe, cfg, t) ==
    [timestamp |-> t,
     cpu_percent |-> probe.cpu,
     memory_percent |-> probe.mem.percent,
     memory_available_gb |-> probe.mem.available_gb,
     disk_partitions |-> ReadPartitions(probe.parts),
     services |-> CheckWindowsServices(cfg.monitoring.critical_services, probe.wmi)]

-----------------------------------------------------------------------------
(* Readings of the host a cycle of the model can meet *)

\* The read that raised: the CPU, memory or network read is outside any try block.
ProbeFails == {"none", "cpu", "memory", "network"}

\* CPU, memory and partitions of the host at one collection.  Each partition
\* carries the outcome of its psutil.disk_usage call.
HostReadings ==
    { [cpu |-> 90, mem |-> [percent |-> 85, available_gb |-> 2],
       parts |-> <<Usage(0)>>],
      [cpu |-> 95, mem |-> [percent |-> 95, available_gb |-> 1],
       parts |-> <<UsageRaises>>] }

\* Outcomes of the WMI queries of one collection, per service: a state, or
\* "raise" for a failed query.
WmiReadings ==
    { [s \in ServiceNames |-> "Running"],
      [s \in ServiceNames |-> IF s = CriticalServices[1] THEN "Stopped" ELSE "Running"],
      [s \in ServiceNames |-> IF s = CriticalServices[1] THEN "raise" ELSE "Stopped"] }

\* Collections in which every read outside a try block succeeded.
GoodProbes ==
    {[fail |-> "none", cpu |-> h.cpu, mem |-> h.mem, parts |-> h.parts, wmi |-> w] :
        h \in HostReadings, w \in WmiReadings}

\* One collection per failing read (its other readings are never used).
BadProbes ==
    {[fail |-> f, cpu |-> 90, mem |-> [percent |-> 85, available_gb |-> 2],
      parts |-> <<Usage(0)>>, wmi |-> [s \in ServiceNames |-> "Running"]] :
        f \in ProbeFails \ {"none"}}

Probes == GoodProbes \cup BadProbes

-----------------------------------------------------------------------------
(* The store: store_metrics, send_alert *)

\* sum(disk_usages) / len(disk_usages) if disk_usages else 0, in tenths of a
\* percent (the quotient is a float in the source).
AvgDiskUsage(disk_partitions) ==
    LET disk_usages == [k \in 1..Len(disk_partitions) |-> disk_partitions[k].percent_used]
        Sum[k \in 0..Len(disk_usages)] ==
            IF k = 0 THEN 0 ELSE Sum[k - 1] + disk_usages[k]
    IN  IF Len(disk_usages) > 0
            THEN (10 * Sum[Len(disk_usages)]) \div Len(disk_usages)
            ELSE 0

\* json.dumps(info['services']): the entries as text, in the dictionary's order.
JsonDumps(services, names) ==
    [k \in 1..Len(names) |-> <<names[k], services[names[k]]>>]

\* The row store_metrics inserts for a snapshot.
MetricsRow(i, cfg) ==
    [timestamp |-> i.timestamp,
     cpu_percent |-> i.cpu_percent,
     memory_percent |-> i.memory_percent,
     memory_available_gb |-> i.memory_available_gb,
     disk_usage_percent |-> AvgDiskUsage(i.disk_partitions),
     service_status |-> JsonDumps(i.services, cfg.monitoring.critical_services)]

\* f"Critical service {service} is stopped"
StoppedMessage(service) == <<"Critical service", service, "is stopped">>

\* The row send_alert inserts: id is AUTOINCREMENT, resolved takes DEFAULT 0.
AlertRow(rows, t, alert_type, message) ==
    [id |-> Len(rows) + 1,
     timestamp |-> t,
     alert_type |-> alert_type,
     message |-> message,
     resolved |-> FALSE]

\* The test of the loop of monitor_services.
IsStopped(status) == status = "Stopped"

-----------------------------------------------------------------------------
(* Initial state: a monitor constructed on a fresh database *)

NoInfo == [timestamp |-> 0, cpu_percent |-> 0, memory_percent |-> 0,
           memory_available_gb |-> 0, disk_partitions |-> <<>>,
           services |-> [s \in ServiceNames |-> "Not Found"]]

\* The record hist keeps of a cycle.  collections counts the calls of
\* get_windows_system_info that returned.  stored is the outcome of
\* store_metrics.  exported tells whether the auto-export ran.  monitored and
\* seen are set when monitor_services has collected, seen being its
\* info['services'].  stopped holds the services its loop found stopped,
\* alerted those for which send_alert returned True.  done is set when
\* run_monitoring_cycle returns.
NewCycle == [collections |-> 0, stored |-> "no", exported |-> FALSE,
             monitored |-> FALSE, seen |-> NoInfo.services,
             stopped |-> {}, alerted |-> {}, done |-> FALSE]

\* No caller but the cycle itself: nothing is scheduled.
NoSched == [at |-> "direct", next_run |-> 0]

\* No NotificationManager has been constructed.
NoManager == [at |-> "none"]

\* No reader has run.
NoResponse == [kind |-> "none"]

\* No health scan has run, no service is being watched.
NoHealth == [at |-> "none"]
NoServiceCheck == [at |-> "none"]

Init ==
    /\ config \in {LoadConfig(f) : f \in UserFiles}
    /\ pc = "idle"
    /\ now = 1
    /\ info = NoInfo
    /\ system_metrics = <<>>
    /\ alerts = <<>>
    /\ pending = <<>>
    /\ warnings = <<>>
    /\ hist = <<>>
    /\ sched = NoSched
    /\ manager = NoManager
    /\ response = NoResponse
    /\ txn = <<>>
    /\ health = NoHealth
    /\ service_check = NoServiceCheck

Cur == hist[Len(hist)]

\* hist with the record of the current cycle replaced.
SetCur(rec) == [hist EXCEPT ![Len(hist)] = rec]

-----------------------------------------------------------------------------
(* run_monitoring_cycle, step by step *)

\* Entry of run_monitoring_cycle and its call of get_windows_system_info, the
\* host answering with a probe of `probes`, while fewer than `cycles` cycles
\* have run.  A read that raises ends the process: nothing up the stack
\* catches it.
StartCycleOn(probes, cycles) ==
    /\ pc = "idle"
    /\ Len(hist) < cycles
    /\ \E probe \in probes :
        IF CollectRaises(probe)
        THEN /\ pc' = "crashed"
             /\ hist' = Append(hist, NewCycle)
             /\ UNCHANGED <<info, warnings>>
        ELSE /\ pc' = "store"
             /\ info' = CollectInfo(probe, config, now)
             /\ warnings' = <<CheckThresholds(info', config)>>
             /\ hist' = Append(hist, [NewCycle EXCEPT !.collections = 1])
    /\ now' = now + 1
    /\ UNCHANGED <<config, system_metrics, alerts, pending, sched, outside>>

StartCycle == StartCycleOn(Probes, MaxCycles)

\* store_metrics(info): the insert, or an error that is caught and logged.
StoreMetrics ==
    /\ pc = "store"
    /\ \E db_ok \in BOOLEAN :
        IF db_ok
        THEN /\ system_metrics' = Append(system_metrics, MetricsRow(info, config))
             /\ hist' = SetCur([Cur EXCEPT !.stored = "stored"])
        ELSE /\ hist' = SetCur([Cur EXCEPT !.stored = "failed"])
             /\ UNCHANGED system_metrics
    /\ pc' = "export"
    /\ UNCHANGED <<config, now, info, alerts, pending, warnings, sched, outside>>

\* The auto-export when configured: export_to_file for json and for yaml.
\* It writes files only and catches its own failures.
AutoExport ==
    /\ pc = "export"
    /\ pc' = "monitor"
    /\ hist' = SetCur([Cur EXCEPT !.exported = config.export.auto_export])
    /\ UNCHANGED <<config, now, info, system_metrics, alerts, pending, warnings,
                   sched, outside>>

\* monitor_services: its own call of get_windows_system_info, then the loop
\* over info['services'].items() starts.
MonitorServices ==
    /\ pc = "monitor"
    /\ \E probe \in Probes :
        IF CollectRaises(probe)
        THEN /\ pc' = "crashed"
             /\ UNCHANGED <<pending, warnings, hist>>
        ELSE LET seen == CollectInfo(probe, config, now)
                 names == config.monitoring.critical_services
             IN /\ pc' = "alerting"
                /\ warnings' = Append(warnings, CheckThresholds(seen, config))
                /\ pending' = [k \in 1..Len(names) |-> <<names[k], seen.services[names[k]]>>]
                /\ hist' = SetCur([Cur EXCEPT !.collections = @ + 1,
                                               !.monitored = TRUE,
                                               !.seen = seen.services])
    /\ now' = now + 1
    /\ UNCHANGED <<config, info, system_metrics, alerts, sched, outside>>

\* send_alert("Service Stopped", message) with the database answering db_ok:
\* whether it returned True, and the alerts table after it.
SendAlert(service, db_ok) ==
    IF ~config.alerting.enabled
    THEN [sent |-> FALSE, rows |-> alerts]
    ELSE IF ~db_ok
    THEN [sent |-> FALSE, rows |-> alerts]
    ELSE [sent |-> config.alerting.email_fields,
          rows |-> Append(alerts,
                     AlertRow(alerts, now, "Service Stopped", StoppedMessage(service)))]

\* One iteration of the loop of monitor_services.
MonitorServiceStep ==
    /\ pc = "alerting"
    /\ pending # <<>>
    /\ LET service == Head(pending)[1]
           status == Head(pending)[2]
       IN IF IsStopped(status)
          THEN \E db_ok \in BOOLEAN :
                LET r == SendAlert(service, db_ok)
                IN /\ alerts' = r.rows
                   /\ hist' = SetCur([Cur EXCEPT
                                !.stopped = @ \cup {service},
                                !.alerted = IF r.sent THEN @ \cup {service} ELSE @])
                   /\ now' = IF r.rows # alerts THEN now + 1 ELSE now
          ELSE UNCHANGED <<alerts, hist, now>>
    /\ pending' = Tail(pending)
    /\ UNCHANGED <<config, pc, info, system_metrics, warnings, sched, outside>>

\* The loop is over: run_monitoring_cycle returns info to its caller, which
\* goes on with the scheduling state `next`.
CycleReturns(next) ==
    /\ pc = "alerting"
    /\ pending = <<>>
    /\ pc' = "idle"
    /\ info' = NoInfo
    /\ warnings' = <<>>
    /\ hist' = SetCur([Cur EXCEPT !.done = TRUE])
    /\ sched' = next
    /\ UNCHANGED <<config, now, system_metrics, alerts, pending, outside>>

\* The cycle returns to a caller that schedules nothing.
EndCycle == CycleReturns(sched)

Next ==
    \/ StartCycle
    \/ StoreMetrics
    \/ AutoExport
    \/ MonitorServices
    \/ MonitorServiceStep
    \/ EndCycle

Spec == Init /\ [][Next]_vars

-----------------------------------------------------------------------------
(* Evaluation of one snapshot over a wider range of readings and thresholds: *)
(* a monitor is constructed from a file that sets the thresholds and runs    *)
(* the collection of its first cycle.                                        *)

EvalCpuThresholds == {50, 90}
EvalMemoryThresholds == {50, 85}
EvalDiskThresholds == {80}

\* User files whose monitoring section sets every option the cycle reads,
\* and a disk_threshold beside them.
EvalFiles ==
    { [found |-> TRUE,
       content |-> [monitoring |->
                        [interval_minutes |-> DefaultIntervalMinutes,
                         critical_services |-> CriticalServices,
                         cpu_threshold |-> c,
                         memory_threshold |-> m,
                         disk_threshold |-> d]]] :
        c \in EvalCpuThresholds, m \in EvalMemoryThresholds, d \in EvalDiskThresholds }

EvalCpuReadings == {0, 49, 50, 51, 89, 90, 91, 100}
EvalMemReadings == {[percent |-> q, available_gb |-> 4] : q \in {0, 50, 51, 85, 86, 100}}
EvalPartReadings == {<<>>, <<UsageRaises>>, <<Usage(0)>>, <<Usage(80)>>,
                     <<Usage(81)>>, <<Usage(100), UsageRaises>>, <<Usage(70), Usage(95)>>}

EvalProbes ==
    {[fail |-> "none", cpu |-> c, mem |-> m, parts |-> d,
      wmi |-> [s \in ServiceNames |-> "Running"]] :
        c \in EvalCpuReadings, m \in EvalMemReadings, d \in EvalPartReadings}

InitEval ==
    /\ config \in {LoadConfig(f) : f \in EvalFiles}
    /\ pc = "idle"
    /\ now = 1
    /\ info = NoInfo
    /\ system_metrics = <<>>
    /\ alerts = <<>>
    /\ pending = <<>>
    /\ warnings = <<>>
    /\ hist = <<>>
    /\ sched = NoSched
    /\ manager = NoManager
    /\ response = NoResponse
    /\ txn = <<>>
    /\ health = NoHealth
    /\ service_check = NoServiceCheck

EvalCollect == StartCycleOn(EvalProbes, 1)

NextEval == EvalCollect

SpecEval == InitEval /\ [][NextEval]_vars

-----------------------------------------------------------------------------
(* The service: the module body of service_wrapper.py, which constructs a   *)
(* monitor, runs one initial cycle and calls start_continuous_monitoring,   *)
(* whose loop runs the job of the schedule module when it is due.  One tick *)
(* of the clock `now` is a minute.                                          *)

\* Number of cycles a behaviour of the service starts, the initial one included.
MaxSchedCycles == 3

\* The readings a cycle of the service starts on: each failing read, and a
\* quiet host.  (The collection of monitor_services draws from all of Probes.)
SchedProbes ==
    BadProbes \cup
    {p \in GoodProbes : p.cpu = 90 /\ \A s \in ServiceNames : p.wmi[s] = "Running"}

\* The configuration files the service is started with: a missing one, and
\* files whose monitoring section sets every option the cycle reads: a short
\* interval; a zero interval with a CPU threshold above 100; a negative
\* interval with a negative memory threshold.
SchedFiles ==
    { [found |-> FALSE, content |-> EmptyMapping],
      [found |-> TRUE,
       content |-> [monitoring |->
                        [interval_minutes |-> 1,
                         critical_services |-> CriticalServices,
                         cpu_threshold |-> DefaultCpuThreshold,
                         memory_threshold |-> DefaultMemoryThreshold]]],
      [found |-> TRUE,
       content |-> [monitoring |->
                        [interval_minutes |-> 0,
                         critical_services |-> CriticalServices,
                         cpu_threshold |-> 150,
                         memory_threshold |-> DefaultMemoryThreshold]]],
      [found |-> TRUE,
       content |-> [monitoring |->
                        [interval_minutes |-> -1,
                         critical_services |-> CriticalServices,
                         cpu_threshold |-> DefaultCpuThreshold,
                         memory_threshold |-> -10]]] }

\* The monitor of the wrapper is constructed: SystemMonitor() loads the
\* configuration and opens the database, and checks no value.
InitSched ==
    /\ config \in {LoadConfig(f) : f \in SchedFiles}
    /\ pc = "idle"
    /\ now = 1
    /\ info = NoInfo
    /\ system_metrics = <<>>
    /\ alerts = <<>>
    /\ pending = <<>>
    /\ warnings = <<>>
    /\ hist = <<>>
    /\ sched = [at |-> "wrapper", next_run |-> 0]
    /\ manager = NoManager
    /\ response = NoResponse
    /\ txn = <<>>
    /\ health = NoHealth
    /\ service_check = NoServiceCheck

\* schedule.every(interval).minutes.do(job): the job's next_run is a period
\* after the moment it is (re)scheduled.
NextRun(t, cfg) == t + cfg.monitoring.interval_minutes

\* The wrapper runs its initial cycle.
InitialCycle ==
    /\ sched.at = "wrapper"
    /\ StartCycleOn(SchedProbes, 1)

\* The initial cycle returns to the wrapper, which calls
\* start_continuous_monitoring: the job is scheduled and the loop entered.
StartContinuousMonitoring ==
    /\ sched.at = "wrapper"
    /\ CycleReturns([at |-> "loop", next_run |-> NextRun(now, config)])

\* A job that starts a cycle whenever it is due, whatever the process is doing
\* (a timer thread in place of the loop).
RunPendingOnTimer ==
    /\ sched.at = "loop"
    /\ now >= sched.next_run
    /\ pc \notin {"crashed", "stopped"}
    /\ Len(hist) < MaxSchedCycles
    /\ \E probe \in SchedProbes :
        /\ ~CollectRaises(probe)
        /\ pc' = "store"
        /\ info' = CollectInfo(probe, config, now)
        /\ warnings' = <<CheckThresholds(info', config)>>
        /\ hist' = Append(hist, [NewCycle EXCEPT !.collections = 1])
    /\ pending' = <<>>
    /\ now' = now + 1
    /\ UNCHANGED <<config, system_metrics, alerts, sched, outside>>

\* schedule.run_pending() in the loop finds the job due and runs it: the
\* cycle starts.  The loop is the only caller and waits for the job.
RunPending ==
    /\ sched.at = "loop"
    /\ now >= sched.next_run
    /\ StartCycleOn(SchedProbes, MaxSchedCycles)

\* The job returns to the schedule module, which schedules its next run
\* from the present moment.
JobReturns ==
    /\ sched.at = "loop"
    /\ CycleReturns([sched EXCEPT !.next_run = NextRun(now, config)])

\* Nothing is due: the loop sleeps (time.sleep) and the clock advances.
Sleep ==
    /\ sched.at = "loop"
    /\ pc = "idle"
    /\ now < sched.next_run
    /\ now' = now + 1
    /\ UNCHANGED <<config, pc, info, system_metrics, alerts, pending, warnings,
                   hist, sched, outside>>

\* An exception left run_monitoring_cycle: the loop catches none, the
\* wrapper logs it as fatal and exits with status 1.
FatalError ==
    /\ sched.at \in {"wrapper", "loop"}
    /\ pc = "crashed"
    /\ sched' = [sched EXCEPT !.at = "exited"]
    /\ UNCHANGED <<config, pc, now, info, system_metrics, alerts, pending,
                   warnings, hist, outside>>

\* The shutdown signal: KeyboardInterrupt is raised at the statement the
\* process is executing, inside a cycle or in the loop.  No handler of the
\* cycle catches it (they catch Exception); the handler of the loop or of the
\* wrapper logs and the process ends.  The locals of the cycle are gone.
Shutdown ==
    /\ sched.at \in {"wrapper", "loop"}
    /\ pc # "crashed"
    /\ pc' = "stopped"
    /\ sched' = [sched EXCEPT !.at = "stopped"]
    /\ info' = NoInfo
    /\ pending' = <<>>
    /\ warnings' = <<>>
    /\ UNCHANGED <<config, now, system_metrics, alerts, hist, outside>>

NextSched ==
    \/ InitialCycle
    \/ StoreMetrics
    \/ AutoExport
    \/ MonitorServices
    \/ MonitorServiceStep
    \/ StartContinuousMonitoring
    \/ RunPending
    \/ JobReturns
    \/ Sleep
    \/ FatalError
    \/ Shutdown

SpecSched == InitSched /\ [][NextSched]_vars

-----------------------------------------------------------------------------
(* Notification channels: scripts/notifications.py.  A caller constructs a  *)
(* NotificationManager from a channel configuration and calls send_to_all   *)
(* (test_notifications does; so does the first SystemMonitor definition of  *)
(* windows_system_info_enhanced.py).                                        *)

\* A channel section of the configuration: absent (get returns {}), or a
\* dictionary whose values are truthy or not.
SlackSections ==
    {[present |-> FALSE, enabled |-> FALSE, token |-> FALSE, channel |-> FALSE]}
    \cup [present : {TRUE}, enabled : BOOLEAN, token : BOOLEAN, channel : BOOLEAN]

TeamsSections ==
    {[present |-> FALSE, enabled |-> FALSE, webhook |-> FALSE]}
    \cup [present : {TRUE}, enabled : BOOLEAN, webhook : BOOLEAN]

NotifyConfigs == [slack : SlackSections, teams : TeamsSections]

\* The alert_type argument of send_to_all.
AlertTypes == {"info", "warning", "critical"}

\* slack_config.get('enabled', False) and token and channel.
SlackConfigured(section) ==
    /\ section.enabled
    /\ section.token
    /\ section.channel

\* teams_config.get('enabled', False) and webhook.
TeamsConfigured(section) ==
    /\ section.enabled
    /\ section.webhook

\* _setup_notifiers: the Slack notifier is appended when configured; the
\* Teams part then reads the name self_config, which nothing binds, so the
\* call raises NameError and __init__ returns no object.
SetupNotifiers(cfg) ==
    [raised |-> TRUE,
     error |-> "NameError",
     notifiers |-> IF SlackConfigured(cfg.slack) THEN <<"slack">> ELSE <<>>]

\* What the Slack client does with chat_postMessage.
SlackOutcomes == {"ok", "not_ok", "raises", "no_sdk"}

\* SlackNotifier.send_alert: every exception is caught and reads False.
SlackSendAlert(outcome) == [raised |-> FALSE, success |-> outcome = "ok"]

\* What pymsteams, or requests when pymsteams is not installed, does.
TeamsOutcomes == {"sent", "send_raises", "fallback_200", "fallback_500",
                  "fallback_raises"}

\* TeamsNotifier.send_alert: only ImportError is caught around the pymsteams
\* calls, so an error of teams_message.send() leaves the method; the
\* fallback through requests catches every exception.
TeamsSendAlert(outcome) ==
    [raised |-> outcome = "send_raises",
     success |-> outcome \in {"sent", "fallback_200"}]

\* The loop of send_to_all over self.notifiers: the results recorded, and
\* whether a send_alert raised (the loop has no try block, and the results
\* are lost with the exception).
SendToAll(notifiers, slack_outcome, teams_outcome) ==
    LET Send(ch) == IF ch = "slack" THEN SlackSendAlert(slack_outcome)
                                    ELSE TeamsSendAlert(teams_outcome)
        Upto[k \in 0..Len(notifiers)] ==
            IF k = 0 THEN [raised |-> FALSE, results |-> EmptyMapping]
            ELSE IF Upto[k - 1].raised THEN Upto[k - 1]
            ELSE IF Send(notifiers[k]).raised
                 THEN [raised |-> TRUE, results |-> EmptyMapping]
                 ELSE [raised |-> FALSE,
                       results |-> [ch \in DOMAIN Upto[k - 1].results \cup {notifiers[k]} |->
                                      IF ch = notifiers[k]
                                      THEN Send(ch).success
                                      ELSE Upto[k - 1].results[ch]]]
    IN  Upto[Len(notifiers)]

\* A caller is about to alert all channels of a configuration.
InitNotify ==
    /\ config = default_config
    /\ pc = "idle"
    /\ now = 1
    /\ info = NoInfo
    /\ system_metrics = <<>>
    /\ alerts = <<>>
    /\ pending = <<>>
    /\ warnings = <<>>
    /\ hist = <<>>
    /\ sched = NoSched
    /\ manager \in {[at |-> "new", config |-> c, alert_type |-> a,
                     results |-> EmptyMapping] :
                        c \in NotifyConfigs, a \in AlertTypes}
    /\ response = NoResponse
    /\ txn = <<>>
    /\ health = NoHealth
    /\ service_check = NoServiceCheck

\* manager = NotificationManager(config); manager.send_to_all(...).
NotifyAllChannels ==
    /\ manager.at = "new"
    /\ \E slack_outcome \in SlackOutcomes, teams_outcome \in TeamsOutcomes :
        LET built == SetupNotifiers(manager.config)
            sent == SendToAll(built.notifiers, slack_outcome, teams_outcome)
        IN  manager' =
                IF built.raised
                THEN [manager EXCEPT !.at = "raised"]
                ELSE IF sent.raised
                THEN [manager EXCEPT !.at = "raised"]
                ELSE [manager EXCEPT !.at = "sent", !.results = sent.results]
    /\ UNCHANGED <<config, pc, now, info, system_metrics, alerts, pending,
                   warnings, hist, sched, response, txn, health, service_check>>

NextNotify == NotifyAllChannels

SpecNotify == InitNotify /\ [][NextNotify]_vars

-----------------------------------------------------------------------------
(* Readers of the database: generate_report, and get_latest_metrics and     *)
(* api_history of scripts/dashboard.py.  Timestamps are minutes of the      *)
(* clock `now`; the ISO strings the source stores order as their times do.  *)

\* Rows of a store a reader meets.
MaxRows == 3
MaxAlertRows == 2

\* 60 minutes: timedelta(hours=...) and the '%H' of strftime.
MinutesPerHour == 60

\* Minutes of a day: the '%d' of strftime.
MinutesPerDay == 24 * MinutesPerHour

\* The times at which the cycles that filled the store collected, the times
\* at which they alerted, and the time at which the reader runs.
ReportTimes == {60, 90, 120, 180, 210}
ReportAlertTimes == {120, 180, 210}
ReportNows == {240}

\* The hours argument of generate_report and of api_history.
ReportHours == {1, 2, 24}

\* The configuration of the monitor that filled the store (alerting enabled).
ReportConfig ==
    LoadConfig([found |-> TRUE,
                content |-> [alerting |-> [enabled |-> TRUE, email_fields |-> TRUE]]])

\* The row a cycle collecting at time t on host reading h stores.
StoredRow(h, t) ==
    MetricsRow(CollectInfo([fail |-> "none", cpu |-> h.cpu, mem |-> h.mem,
                            parts |-> h.parts,
                            wmi |-> [s \in ServiceNames |-> "Running"]],
                           ReportConfig, t),
               ReportConfig)

\* Tables system_metrics of at most n rows, inserted at increasing times.
RECURSIVE MetricsTables(_)
MetricsTables(n) ==
    IF n = 0 THEN {<<>>}
    ELSE LET shorter == MetricsTables(n - 1)
         IN  shorter \cup
             {Append(rows, StoredRow(h, t)) :
                 rows \in {r \in shorter : Len(r) = n - 1},
                 h \in HostReadings,
                 t \in ReportTimes}

\* Tables alerts of at most n rows, inserted by send_alert at increasing times.
RECURSIVE AlertTables(_)
AlertTables(n) ==
    IF n = 0 THEN {<<>>}
    ELSE LET shorter == AlertTables(n - 1)
         IN  shorter \cup
             {Append(rows, AlertRow(rows, t, "Service Stopped",
                                    StoppedMessage(CriticalServices[1]))) :
                 rows \in {r \in shorter : Len(r) = n - 1},
                 t \in ReportAlertTimes}

\* Rows were inserted as time went on.
Increasing(rows) ==
    \A i \in 1..(Len(rows) - 1) : rows[i].timestamp < rows[i + 1].timestamp

InitReport ==
    /\ config = ReportConfig
    /\ pc = "idle"
    /\ now \in ReportNows
    /\ info = NoInfo
    /\ system_metrics \in {rows \in MetricsTables(MaxRows) : Increasing(rows)}
    /\ alerts \in {rows \in AlertTables(MaxAlertRows) : Increasing(rows)}
    /\ pending = <<>>
    /\ warnings = <<>>
    /\ hist = <<>>
    /\ sched = NoSched
    /\ manager = NoManager
    /\ response = NoResponse
    /\ txn = <<>>
    /\ health = NoHealth
    /\ service_check = NoServiceCheck

\* (datetime.now() - timedelta(hours=hours)).isoformat()
CutoffTime(t, hours) == t - hours * MinutesPerHour

\* WHERE timestamp > ?
AfterCutoff(rows, cutoff) == SelectSeq(rows, LAMBDA r : r.timestamp > cutoff)

\* strftime('%Y-%m-%d', timestamp): the key of a grouping by day.
StrftimeDay(timestamp) == timestamp \div MinutesPerDay

\* strftime('%Y-%m-%d %H', timestamp): the key of the GROUP BY.
StrftimeHour(timestamp) == timestamp \div MinutesPerHour

\* The keys of the groups, and the rows of one group.
GroupKeys(rows) == {StrftimeHour(rows[i].timestamp) : i \in 1..Len(rows)}
GroupRows(rows, key) == SelectSeq(rows, LAMBDA r : StrftimeHour(r.timestamp) = key)

\* MAX(column) and AVG(column) over the rows of a group, the average in
\* tenths (it is a float in the source).
MaxOf(values) ==
    CHOOSE v \in {values[i] : i \in 1..Len(values)} :
        \A i \in 1..Len(values) : values[i] <= v

AvgOf(values) ==
    LET Sum[k \in 0..Len(values)] == IF k = 0 THEN 0 ELSE Sum[k - 1] + values[k]
    IN  (10 * Sum[Len(values)]) \div Len(values)

CpuOf(rows) == [i \in 1..Len(rows) |-> rows[i].cpu_percent]
MemoryOf(rows) == [i \in 1..Len(rows) |-> rows[i].memory_percent]

\* The bare column `timestamp` of the aggregate query: SQLite takes it from a
\* row of the group that holds one of the two maxima, which one is not
\* determined.
BareTimestamps(group) ==
    {group[i].timestamp : i \in {j \in 1..Len(group) :
        \/ group[j].cpu_percent = MaxOf(CpuOf(group))
        \/ group[j].memory_percent = MaxOf(MemoryOf(group))}}

\* One entry of metrics_timeline.
TimelineEntry(group, bare) ==
    [hour |-> bare,
     avg_cpu |-> AvgOf(CpuOf(group)),
     max_cpu |-> MaxOf(CpuOf(group)),
     avg_memory |-> AvgOf(MemoryOf(group)),
     max_memory |-> MaxOf(MemoryOf(group)),
     samples |-> Len(group)]

\* The keys of a set in ascending order.
Ascending(keys) ==
    [k \in 1..Cardinality(keys) |->
        CHOOSE x \in keys : Cardinality({y \in keys : y < x}) = k - 1]

\* The alert types send_alert is called with, and the rows of the second
\* query: WHERE timestamp > ? AND resolved = 0 GROUP BY alert_type.
AlertTypeNames == <<"Service Stopped">>

ActiveAlerts(rows, cutoff) ==
    LET Count(type) ==
            Cardinality({i \in 1..Len(rows) :
                /\ rows[i].timestamp > cutoff
                /\ ~rows[i].resolved
                /\ rows[i].alert_type = type})
        counted == [k \in 1..Len(AlertTypeNames) |->
                        [type |-> AlertTypeNames[k], count |-> Count(AlertTypeNames[k])]]
    IN  SelectSeq(counted, LAMBDA a : a.count > 0)

\* A report that prunes the store as it reads: the rows at or before the
\* cutoff are deleted.
GenerateReportPruning ==
    /\ pc = "idle"
    /\ \E hours \in ReportHours :
        /\ system_metrics' = AfterCutoff(system_metrics, CutoffTime(now, hours))
        /\ response' = [kind |-> "report",
                        request |-> [hours |-> hours, at |-> now],
                        report |-> EmptyMapping]
    /\ UNCHANGED <<config, pc, now, info, alerts, pending, warnings, hist,
                   sched, manager, txn, health, service_check>>

\* The queries of generate_report(hours) on their own connection, and what
\* it returns: the report, or {} when the database raised.
ReadReport ==
    /\ \E hours \in ReportHours, db_ok \in BOOLEAN :
        LET cutoff_time == CutoffTime(now, hours)
            rows == AfterCutoff(system_metrics, cutoff_time)
            keys == Ascending(GroupKeys(rows))
        IN  IF db_ok
            THEN \E bare \in [1..Len(keys) -> ReportTimes] :
                    /\ \A k \in 1..Len(keys) :
                            bare[k] \in BareTimestamps(GroupRows(rows, keys[k]))
                    /\ response' =
                        [kind |-> "report",
                         request |-> [hours |-> hours, at |-> now],
                         report |->
                            [period_hours |-> hours,
                             metrics_timeline |->
                                [k \in 1..Len(keys) |->
                                    TimelineEntry(GroupRows(rows, keys[k]), bare[k])],
                             active_alerts |-> ActiveAlerts(alerts, cutoff_time),
                             generated_at |-> now]]
            ELSE response' = [kind |-> "report",
                              request |-> [hours |-> hours, at |-> now],
                              report |-> EmptyMapping]
    /\ UNCHANGED <<config, pc, now, info, system_metrics, alerts, pending,
                   warnings, hist, sched, manager, txn, health, service_check>>

\* generate_report(hours), called while the monitor runs no cycle.
GenerateReport ==
    /\ pc = "idle"
    /\ ReadReport

\* ORDER BY timestamp.
OrderByTimestamp(rows) ==
    [k \in 1..Len(rows) |->
        rows[CHOOSE i \in 1..Len(rows) :
                Cardinality({j \in 1..Len(rows) :
                    \/ rows[j].timestamp < rows[i].timestamp
                    \/ (rows[j].timestamp = rows[i].timestamp /\ j < i)}) = k - 1]]

\* One entry of the list api_history returns.
HistoryEntry(row) ==
    [time |-> row.timestamp,
     cpu |-> row.cpu_percent,
     memory |-> row.memory_percent,
     disk |-> row.disk_usage_percent]

\* The query of api_history(hours) on its own connection, and the answer:
\* the rows after the cutoff, or an error with status 500 when int(hours)
\* or the database raised.
ReadHistory ==
    /\ \E hours \in ReportHours, ok \in BOOLEAN :
        LET rows == OrderByTimestamp(AfterCutoff(system_metrics, CutoffTime(now, hours)))
        IN  response' =
                IF ok
                THEN [kind |-> "history",
                      request |-> [hours |-> hours, at |-> now],
                      status |-> 200,
                      data |-> [k \in 1..Len(rows) |-> HistoryEntry(rows[k])]]
                ELSE [kind |-> "history",
                      request |-> [hours |-> hours, at |-> now],
                      status |-> 500,
                      data |-> <<>>]
    /\ UNCHANGED <<config, pc, now, info, system_metrics, alerts, pending,
                   warnings, hist, sched, manager, txn, health, service_check>>

\* api_history(hours) of the dashboard, asked while the monitor runs no cycle.
ApiHistory ==
    /\ pc = "idle"
    /\ ReadHistory

\* json.loads of the text JsonDumps writes.
JsonLoads(text) ==
    [name \in {text[k][1] : k \in 1..Len(text)} |->
        (CHOOSE entry \in {text[k] : k \in 1..Len(text)} : entry[1] = name)[2]]

\* The query of get_latest_metrics on its own connection, and what it
\* returns: ORDER BY timestamp DESC LIMIT 1, or {} when the table is empty
\* or the database raised.
ReadLatestMetrics ==
    /\ \E db_ok \in BOOLEAN :
        LET rows == OrderByTimestamp(system_metrics)
            row == rows[Len(rows)]
        IN  response' =
                IF db_ok /\ Len(rows) > 0
                THEN [kind |-> "latest",
                      request |-> [hours |-> 0, at |-> now],
                      metrics |->
                        [timestamp |-> row.timestamp,
                         cpu_percent |-> row.cpu_percent,
                         memory_percent |-> row.memory_percent,
                         memory_available_gb |-> row.memory_available_gb,
                         disk_usage_percent |-> row.disk_usage_percent,
                         services |-> JsonLoads(row.service_status)]]
                ELSE [kind |-> "latest",
                      request |-> [hours |-> 0, at |-> now],
                      metrics |-> EmptyMapping]
    /\ UNCHANGED <<config, pc, now, info, system_metrics, alerts, pending,
                   warnings, hist, sched, manager, txn, health, service_check>>

\* get_latest_metrics of the dashboard, asked while the monitor runs no cycle.
GetLatestMetrics ==
    /\ pc = "idle"
    /\ ReadLatestMetrics

NextReport ==
    \/ GenerateReport
    \/ ApiHistory
    \/ GetLatestMetrics

SpecReport == InitReport /\ [][NextReport]_vars

-----------------------------------------------------------------------------
(* The service across restarts: the process ends (shutdown signal or fatal  *)
(* error) and service_wrapper.py is run again on the same database file,    *)
(* while the readers query that file.  hist keeps the record of the cycles  *)
(* of every run of the process.                                             *)

\* Number of cycles the runs of the service start between them.
MaxRestartCycles == 2

\* The configuration file of the restarted service: alerting enabled, a
\* cycle every minute.
RestartFile ==
    [found |-> TRUE,
     content |-> [monitoring |->
                      [interval_minutes |-> 1,
                       critical_services |-> CriticalServices,
                       cpu_threshold |-> DefaultCpuThreshold,
                       memory_threshold |-> DefaultMemoryThreshold],
                  alerting |-> [enabled |-> TRUE, email_fields |-> TRUE]]]

\* The service is started on a fresh database.
InitRestart ==
    /\ config = LoadConfig(RestartFile)
    /\ pc = "idle"
    /\ now = 1
    /\ info = NoInfo
    /\ system_metrics = <<>>
    /\ alerts = <<>>
    /\ pending = <<>>
    /\ warnings = <<>>
    /\ hist = <<>>
    /\ sched = [at |-> "wrapper", next_run |-> 0]
    /\ manager = NoManager
    /\ response = NoResponse
    /\ txn = <<>>
    /\ health = NoHealth
    /\ service_check = NoServiceCheck

\* The initial cycle of a run of the wrapper, the first run or a later one.
WrapperCycle ==
    /\ sched.at = "wrapper"
    /\ StartCycleOn(SchedProbes, MaxRestartCycles)

\* schedule.run_pending() finds the job due and runs it.
ScheduledCycle ==
    /\ sched.at = "loop"
    /\ now >= sched.next_run
    /\ StartCycleOn(SchedProbes, MaxRestartCycles)

\* A start of the wrapper that begins with an empty database (the file
\* removed, or the tables dropped and created anew).
RestartOnNewDatabase ==
    /\ sched.at \in {"stopped", "exited"}
    /\ sched' = [at |-> "wrapper", next_run |-> 0]
    /\ pc' = "idle"
    /\ info' = NoInfo
    /\ pending' = <<>>
    /\ warnings' = <<>>
    /\ system_metrics' = <<>>
    /\ alerts' = <<>>
    /\ UNCHANGED <<config, now, hist, outside>>

\* The ended process is started again: SystemMonitor() loads the same
\* configuration file, and _init_database creates the tables only IF NOT
\* EXISTS, so the rows of the file are kept.  The new process has no other
\* memory of the old one.
Restart ==
    /\ sched.at \in {"stopped", "exited"}
    /\ sched' = [at |-> "wrapper", next_run |-> 0]
    /\ pc' = "idle"
    /\ info' = NoInfo
    /\ pending' = <<>>
    /\ warnings' = <<>>
    /\ UNCHANGED <<config, now, system_metrics, alerts, hist, outside>>

NextRestart ==
    \/ WrapperCycle
    \/ StoreMetrics
    \/ AutoExport
    \/ MonitorServices
    \/ MonitorServiceStep
    \/ StartContinuousMonitoring
    \/ ScheduledCycle
    \/ JobReturns
    \/ Sleep
    \/ FatalError
    \/ Shutdown
    \/ Restart
    \/ GenerateReport
    \/ ApiHistory
    \/ GetLatestMetrics

SpecRestart == InitRestart /\ [][NextRestart]_vars

-----------------------------------------------------------------------------
(* Construction from a user file that defines sections in part:             *)
(* SystemMonitor.__init__ calls _load_config, then the first cycle starts   *)
(* and reads the options it needs with config[section][option].            *)

\* The values a user file gives the options of its sections.
UserMonitoring ==
    [interval_minutes |-> 1,
     critical_services |-> CriticalServices,
     cpu_threshold |-> 80,
     memory_threshold |-> 70]

UserAlerting == [enabled |-> TRUE, email_fields |-> TRUE]

UserExport == [auto_export |-> FALSE, json_path |-> "out.json"]

\* A section of a user file that sets the options `keys` of `values`.
SectionOf(values, keys) == [k \in keys |-> values[k]]

\* The sections a user file can hold: every subset of the monitoring
\* options; alerting whole, or with its e-mail fields only; export with
\* auto_export, or with a path only.
MonitoringSections == {SectionOf(UserMonitoring, keys) : keys \in SUBSET DOMAIN UserMonitoring}
AlertingSections == {SectionOf(UserAlerting, keys) : keys \in {{"enabled", "email_fields"}, {"email_fields"}}}
ExportSections == {SectionOf(UserExport, keys) : keys \in {{"auto_export"}, {"json_path"}}}

\* The mapping of a file that holds the sections of `names`.
ContentOf(names, monitoring, alerting, export) ==
    [k \in names |->
        IF k = "monitoring" THEN monitoring
        ELSE IF k = "alerting" THEN alerting
        ELSE export]

\* The user files: missing, or holding any of the three sections.
LoadFiles ==
    {[found |-> FALSE, content |-> EmptyMapping]}
    \cup
    {[found |-> TRUE, content |-> ContentOf(names, m, a, e)] :
        names \in SUBSET {"monitoring", "alerting", "export"},
        m \in MonitoringSections, a \in AlertingSections, e \in ExportSections}

\* SystemMonitor.__init__ is entered: default_config is built, no file read yet.
InitLoad ==
    /\ config = default_config
    /\ pc = "idle"
    /\ now = 1
    /\ info = NoInfo
    /\ system_metrics = <<>>
    /\ alerts = <<>>
    /\ pending = <<>>
    /\ warnings = <<>>
    /\ hist = <<>>
    /\ sched = [at |-> "init", next_run |-> 0]
    /\ manager = NoManager
    /\ response = NoResponse
    /\ txn = <<>>
    /\ health = NoHealth
    /\ service_check = NoServiceCheck

\* _load_config on a user file; the constructor returns.
LoadUserConfig ==
    /\ sched.at = "init"
    /\ \E file \in LoadFiles : config' = LoadConfig(file)
    /\ sched' = NoSched
    /\ UNCHANGED <<pc, now, info, system_metrics, alerts, pending, warnings,
                   hist, outside>>

\* The options the first collection of a cycle reads (lines 180, 218, 219).
CollectionOptions == {"critical_services", "cpu_threshold", "memory_threshold"}

\* The first cycle starts on a quiet host.  config['monitoring'][option] of
\* an option the section lacks raises KeyError, which nothing catches.
FirstCycleOfLoaded ==
    /\ sched.at = "direct"
    /\ IF CollectionOptions \subseteq DOMAIN config.monitoring
       THEN StartCycleOn(SchedProbes \ BadProbes, 1)
       ELSE /\ pc = "idle"
            /\ Len(hist) < 1
            /\ pc' = "crashed"
            /\ hist' = Append(hist, NewCycle)
            /\ now' = now + 1
            /\ UNCHANGED <<config, info, system_metrics, alerts, pending,
                           warnings, sched, outside>>

NextLoad ==
    \/ LoadUserConfig
    \/ FirstCycleOfLoaded

SpecLoad == InitLoad /\ [][NextLoad]_vars

-----------------------------------------------------------------------------
(* The health report: WindowsSystemHealthMonitor.generate_health_report of  *)
(* scripts/windows_automation_project.py, applied to the metrics            *)
(* collect_all_metrics hands it.                                            *)

\* Length of the longest list of disks a report is made of.
MaxDisks == 7

\* The services collect_all_metrics checks.
HealthServices == <<"WinRM", "Spooler", "Dhcp", "Dnscache", "EventLog", "Schedule">>

\* What a service not running, a full disk and a full memory cost, and the
\* percentage above which a disk or the memory is full.
ServicePenalty == 5
DiskPenalty == 10
MemoryPenalty == 10
FullPercent == 90

\* A status is a text, kept as its words.  get_service_status returns a
\* state of its table, "Unknown", or "Error: " and the message of the
\* exception; the PowerShell fallback returns the table Get-Service prints.
RunningStatuses == {<<"Running">>, <<"Status", "------", "Running">>}
FailingStatuses == {<<"Stopped">>, <<"Start", "Pending">>, <<"Unknown">>,
                    <<"Error:", "Access", "is", "denied.">>,
                    <<"Status", "------", "Stopped">>}

\* metrics["services"]: nothing checked, or the first `failing` services
\* with one status and the others with another.
ServiceInputs ==
    {EmptyMapping} \cup
    {[name \in {HealthServices[i] : i \in 1..Len(HealthServices)} |->
        IF \E i \in 1..failing : HealthServices[i] = name THEN bad ELSE good] :
        failing \in 0..Len(HealthServices),
        bad \in FailingStatuses, good \in RunningStatuses}

\* metrics["disk_space"]: nothing, one dictionary, or a list of them of
\* which the first `full` are above the limit; a dictionary may lack
\* PercentUsed.
DiskInputs ==
    {[form |-> "none", disks |-> <<>>]}
    \cup {[form |-> "dict", disks |-> <<d>>] :
            d \in {[Drive |-> 1, PercentUsed |-> FullPercent],
                   [Drive |-> 1, PercentUsed |-> FullPercent + 1],
                   [Drive |-> 1]}}
    \cup {[form |-> "list",
           disks |-> [i \in 1..n |->
                        [Drive |-> i,
                         PercentUsed |-> IF i <= full THEN 100 ELSE FullPercent]]] :
            n \in 0..MaxDisks, full \in 0..MaxDisks}

\* metrics["performance"].get("memory").
MemoryInputs ==
    {[present |-> FALSE, memory |-> EmptyMapping]}
    \cup {[present |-> TRUE, memory |-> m] :
            m \in {[PercentUsed |-> FullPercent], [PercentUsed |-> FullPercent + 1],
                   [UsedGB |-> 4]}}

\* collect_all_metrics has returned.
InitHealth ==
    /\ config = default_config
    /\ pc = "idle"
    /\ now = 1
    /\ info = NoInfo
    /\ system_metrics = <<>>
    /\ alerts = <<>>
    /\ pending = <<>>
    /\ warnings = <<>>
    /\ hist = <<>>
    /\ sched = NoSched
    /\ manager = NoManager
    /\ response = NoResponse
    /\ txn = <<>>
    /\ health \in {[at |-> "collected",
                    metrics |-> [services |-> sv, disk_space |-> d, memory |-> m],
                    report |-> EmptyMapping] :
                        sv \in ServiceInputs, d \in DiskInputs, m \in MemoryInputs}
    /\ service_check = NoServiceCheck

\* dict.get(key, default)
Get(dict, key, default) == IF key \in DOMAIN dict THEN dict[key] ELSE default

\* status != "Running" and "Running" not in str(status)
CountsAsFailed(status) ==
    /\ status # <<"Running">>
    /\ \A i \in 1..Len(status) : status[i] # "Running"

\* failed_services
FailedServices(services) == {name \in DOMAIN services : CountsAsFailed(services[name])}

\* The disks that cost a penalty: the entries of a non-empty list, or the
\* one dictionary, whose PercentUsed is above the limit.
FullDisks(disk_info) ==
    IF disk_info.form = "none" THEN {}
    ELSE {i \in 1..Len(disk_info.disks) :
            Get(disk_info.disks[i], "PercentUsed", 0) > FullPercent}

\* memory_info and memory_info.get("PercentUsed", 0) > 90
MemoryFull(memory_info) ==
    /\ memory_info.present
    /\ Get(memory_info.memory, "PercentUsed", 0) > FullPercent

\* _get_health_status with > in place of >=.
GetHealthStatusStrict(score) ==
    IF score > 90 THEN "Excellent"
    ELSE IF score > 75 THEN "Good"
    ELSE IF score > 60 THEN "Fair"
    ELSE IF score > 40 THEN "Poor"
    ELSE "Critical"

\* _get_health_status
GetHealthStatus(score) ==
    IF score >= 90 THEN "Excellent"
    ELSE IF score >= 75 THEN "Good"
    ELSE IF score >= 60 THEN "Fair"
    ELSE IF score >= 40 THEN "Poor"
    ELSE "Critical"

\* max(0, health_score)
Max0(n) == IF n > 0 THEN n ELSE 0

\* The report generate_health_report builds: the score is clamped, the
\* status is taken from the score before the clamp.
HealthReport(metrics) ==
    LET failed_services == FailedServices(metrics.services)
        full_disks == FullDisks(metrics.disk_space)
        health_score == 100 - ServicePenalty * Cardinality(failed_services)
                            - DiskPenalty * Cardinality(full_disks)
                            - (IF MemoryFull(metrics.memory) THEN MemoryPenalty ELSE 0)
    IN  [health_score |-> Max0(health_score),
         health_status |-> GetHealthStatus(health_score),
         issues_count |-> (IF failed_services # {} THEN 1 ELSE 0)
                            + Cardinality(full_disks)
                            + (IF MemoryFull(metrics.memory) THEN 1 ELSE 0)]

\* generate_health_report(metrics): the report is built, written to its
\* file and returned, or the write raises and nothing is returned.
GenerateHealthReport ==
    /\ health.at = "collected"
    /\ \E saved \in BOOLEAN :
        health' = IF saved
                  THEN [health EXCEPT !.at = "reported",
                                      !.report = HealthReport(health.metrics)]
                  ELSE [health EXCEPT !.at = "raised"]
    /\ UNCHANGED <<config, pc, now, info, system_metrics, alerts, pending,
                   warnings, hist, sched, manager, response, txn, service_check>>

NextHealth == GenerateHealthReport

SpecHealth == InitHealth /\ [][NextHealth]_vars

-----------------------------------------------------------------------------
(* Watching one service: WindowsServiceManager.monitor_service of           *)
(* scripts/windows_services.py.  One tick of the clock `now` is a second.   *)

\* The largest max_checks a call is made with.
MaxChecks == 4

\* The arguments of a call: max_checks (range() of a number below 1 is
\* empty) and check_interval (time.sleep refuses a negative one).
MaxChecksArgs == (-1)..MaxChecks
CheckIntervals == {-1, 0, 1, 60}

\* What get_service_status returns: a state of its table, "Unknown", or
\* "Error: " and the message of the exception it caught.
ServiceStatuses ==
    {<<"Running">>, <<"Stopped">>, <<"Paused">>, <<"Unknown">>,
     <<"Error:", "Access", "is", "denied.">>}

\* monitor_service is called: the loop is about to test its range.
InitServiceCheck ==
    /\ config = default_config
    /\ pc = "idle"
    /\ now = 1
    /\ info = NoInfo
    /\ system_metrics = <<>>
    /\ alerts = <<>>
    /\ pending = <<>>
    /\ warnings = <<>>
    /\ hist = <<>>
    /\ sched = NoSched
    /\ manager = NoManager
    /\ response = NoResponse
    /\ txn = <<>>
    /\ health = NoHealth
    /\ service_check \in {[at |-> "loop", check_interval |-> c, max_checks |-> m,
                           i |-> 0, checks |-> <<>>, result |-> FALSE] :
                                c \in CheckIntervals, m \in MaxChecksArgs}

\* The part of the state monitor_service leaves alone.
NotServiceCheck == <<config, pc, info, system_metrics, alerts, pending, warnings,
                     hist, sched, manager, response, txn, health>>

\* An iteration that goes on to the next check whatever the status is.
GetServiceStatusAndGoOn ==
    /\ service_check.at = "loop"
    /\ service_check.i < service_check.max_checks
    /\ \E status \in ServiceStatuses :
        service_check' =
            IF service_check.i < service_check.max_checks - 1
            THEN [service_check EXCEPT !.checks = Append(@, status), !.at = "sleep"]
            ELSE [service_check EXCEPT !.checks = Append(@, status), !.i = @ + 1]
    /\ UNCHANGED <<now, NotServiceCheck>>

\* One iteration of the loop up to its sleep: the status is read; a status
\* other than "Running" returns False; otherwise the loop sleeps unless the
\* iteration is the last.
GetServiceStatus ==
    /\ service_check.at = "loop"
    /\ service_check.i < service_check.max_checks
    /\ \E status \in ServiceStatuses :
        service_check' =
            IF status # <<"Running">>
            THEN [service_check EXCEPT !.checks = Append(@, status),
                                       !.at = "returned", !.result = FALSE]
            ELSE IF service_check.i < service_check.max_checks - 1
            THEN [service_check EXCEPT !.checks = Append(@, status), !.at = "sleep"]
            ELSE [service_check EXCEPT !.checks = Append(@, status), !.i = @ + 1]
    /\ UNCHANGED <<now, NotServiceCheck>>

\* time.sleep(check_interval): ValueError on a negative interval, which
\* leaves monitor_service; otherwise the time passes and the loop goes on.
SleepInterval ==
    /\ service_check.at = "sleep"
    /\ IF service_check.check_interval < 0
       THEN /\ service_check' = [service_check EXCEPT !.at = "raised"]
            /\ UNCHANGED now
       ELSE /\ service_check' = [service_check EXCEPT !.at = "loop", !.i = @ + 1]
            /\ now' = now + service_check.check_interval
    /\ UNCHANGED NotServiceCheck

\* range(max_checks) is exhausted: monitor_service returns True.
ServiceRemainedRunning ==
    /\ service_check.at = "loop"
    /\ service_check.i >= service_check.max_checks
    /\ service_check' = [service_check EXCEPT !.at = "returned", !.result = TRUE]
    /\ UNCHANGED <<now, NotServiceCheck>>

NextServiceCheck ==
    \/ GetServiceStatus
    \/ SleepInterval
    \/ ServiceRemainedRunning

SpecServiceCheck == InitServiceCheck /\ [][NextServiceCheck]_vars

\* The call runs on: a step that can be taken is taken (the thread is
\* scheduled, and a sleep of a finite interval ends).
FairServiceCheck == SpecServiceCheck /\ WF_vars(NextServiceCheck)

-----------------------------------------------------------------------------
(* Writers and readers of the database file, statement by statement.        *)
(* store_metrics and send_alert each open a connection, execute one INSERT  *)
(* (sqlite3 begins a transaction before it) and commit; the readers use     *)
(* connections of their own, at any moment.  SQLite shows a connection the  *)
(* committed rows only, and rolls back a transaction whose process ended    *)
(* before its commit: txn holds the rows of the open transaction, and       *)
(* system_metrics and alerts the committed ones.                            *)

\* Number of cycles the writer runs.
MaxStoreCycles == 2

\* A monitor with alerting enabled, on a fresh database.
InitStore ==
    /\ config = ReportConfig
    /\ pc = "idle"
    /\ now = 1
    /\ info = NoInfo
    /\ system_metrics = <<>>
    /\ alerts = <<>>
    /\ pending = <<>>
    /\ warnings = <<>>
    /\ hist = <<>>
    /\ sched = NoSched
    /\ manager = NoManager
    /\ response = NoResponse
    /\ txn = <<>>
    /\ health = NoHealth
    /\ service_check = NoServiceCheck

\* What no statement of the writer touches.
NotStore == <<config, sched, manager, response, health, service_check>>

\* A cycle starts on a quiet host.
StoreCycle == StartCycleOn(SchedProbes \ BadProbes, MaxStoreCycles)

\* An insert that writes the row column by column with no transaction: the
\* timestamp is in the table at once, the other columns follow.
ExecuteInsertByColumn ==
    /\ pc = "store"
    /\ system_metrics' = Append(system_metrics, [timestamp |-> info.timestamp])
    /\ txn' = <<[table |-> "system_metrics", row |-> MetricsRow(info, config)]>>
    /\ pc' = "commit_metrics"
    /\ UNCHANGED <<now, info, alerts, pending, warnings, hist, NotStore>>

\* store_metrics up to its commit: connect and cursor.execute(INSERT ...)
\* with the six values of the row, or an exception that is caught.
ExecuteInsertMetrics ==
    /\ pc = "store"
    /\ \E db_ok \in BOOLEAN :
        IF db_ok
        THEN /\ txn' = <<[table |-> "system_metrics", row |-> MetricsRow(info, config)]>>
             /\ pc' = "commit_metrics"
             /\ UNCHANGED hist
        ELSE /\ hist' = SetCur([Cur EXCEPT !.stored = "failed"])
             /\ pc' = "export"
             /\ UNCHANGED txn
    /\ UNCHANGED <<now, info, system_metrics, alerts, pending, warnings, NotStore>>

\* conn.commit() of store_metrics: the row becomes visible, or the commit
\* raises (the file is locked), the exception is caught and the
\* transaction is gone with its connection.
CommitMetrics ==
    /\ pc = "commit_metrics"
    /\ \E db_ok \in BOOLEAN :
        IF db_ok
        THEN /\ system_metrics' = Append(system_metrics, txn[1].row)
             /\ hist' = SetCur([Cur EXCEPT !.stored = "stored"])
        ELSE /\ hist' = SetCur([Cur EXCEPT !.stored = "failed"])
             /\ UNCHANGED system_metrics
    /\ txn' = <<>>
    /\ pc' = "export"
    /\ UNCHANGED <<now, info, alerts, pending, warnings, NotStore>>

\* The loop of monitor_services passes a service that is not stopped.
PassService ==
    /\ pending # <<>>
    /\ ~IsStopped(Head(pending)[2])
    /\ MonitorServiceStep

\* send_alert for a stopped service, up to its commit: alerting disabled
\* returns False; otherwise connect and cursor.execute(INSERT ...), or an
\* exception that is caught and returns False.
ExecuteInsertAlert ==
    /\ pc = "alerting"
    /\ pending # <<>>
    /\ IsStopped(Head(pending)[2])
    /\ LET service == Head(pending)[1]
       IN /\ hist' = SetCur([Cur EXCEPT !.stopped = @ \cup {service}])
          /\ \E db_ok \in BOOLEAN :
                IF config.alerting.enabled /\ db_ok
                THEN /\ txn' = <<[table |-> "alerts",
                                  row |-> AlertRow(alerts, now, "Service Stopped",
                                                   StoppedMessage(service))]>>
                     /\ pc' = "commit_alert"
                     /\ UNCHANGED pending
                ELSE /\ pending' = Tail(pending)
                     /\ UNCHANGED <<txn, pc>>
    /\ UNCHANGED <<now, info, system_metrics, alerts, warnings, NotStore>>

\* conn.commit() of send_alert, then the e-mail: True when it was sent.  A
\* commit that raises is caught and returns False.
CommitAlert ==
    /\ pc = "commit_alert"
    /\ \E db_ok \in BOOLEAN :
        IF db_ok
        THEN /\ alerts' = Append(alerts, txn[1].row)
             /\ hist' = SetCur([Cur EXCEPT !.alerted =
                            IF config.alerting.email_fields
                            THEN @ \cup {Head(pending)[1]} ELSE @])
             /\ now' = now + 1
        ELSE UNCHANGED <<alerts, hist, now>>
    /\ txn' = <<>>
    /\ pending' = Tail(pending)
    /\ pc' = "alerting"
    /\ UNCHANGED <<info, system_metrics, warnings, NotStore>>

\* The process is ended at any statement of a cycle (killed, power lost).
\* The rows of an open transaction were never committed: SQLite rolls them
\* back when the file is opened next.
Kill ==
    /\ pc \notin {"idle", "crashed"}
    /\ pc' = "crashed"
    /\ txn' = <<>>
    /\ info' = NoInfo
    /\ pending' = <<>>
    /\ warnings' = <<>>
    /\ UNCHANGED <<now, system_metrics, alerts, hist, NotStore>>

NextStore ==
    \/ StoreCycle
    \/ ExecuteInsertMetrics
    \/ CommitMetrics
    \/ AutoExport
    \/ MonitorServices
    \/ PassService
    \/ ExecuteInsertAlert
    \/ CommitAlert
    \/ EndCycle
    \/ Kill
    \/ ReadLatestMetrics
    \/ ReadHistory
    \/ ReadReport

SpecStore == InitStore /\ [][NextStore]_vars

-----------------------------------------------------------------------------
(* Properties *)

\* run_monitoring_cycle has run its last statement before the return.
CycleOver == pc = "alerting" /\ pending = <<>>

\* The rows of alerts about service s.
AlertsAbout(s) == {i \in 1..Len(alerts) : alerts[i].message = StoppedMessage(s)}

\* The identity the design gives an alert: its condition kind and subject.
AlertId(row) == <<row.alert_type, row.message>>

\* C1: when a service is found stopped in two consecutive cycles and the first
\* of them notified, the second one sends no notification for that service.
C1_SecondCycleSilent ==
    \A c \in 1..(Len(hist) - 1) : \A s \in ServiceNames :
        (s \in hist[c].stopped /\ s \in hist[c].alerted /\ s \in hist[c + 1].stopped)
            => s \notin hist[c + 1].alerted

\* C2: once a cycle has completed in which a service that the cycle before
\* found stopped is running again, every stored alert about it is resolved.
C2_ResolvedWhenAbsent ==
    \A s \in ServiceNames :
        (/\ Len(hist) >= 2
         /\ Cur.done
         /\ s \in hist[Len(hist) - 1].stopped
         /\ Cur.seen[s] = "Running")
            => \A i \in AlertsAbout(s) : alerts[i].resolved

\* C3: the alerts table never holds two rows with the same (kind, subject).
C3_OneRowPerAlertId ==
    \A i, j \in 1..Len(alerts) :
        AlertId(alerts[i]) = AlertId(alerts[j]) => i = j

\* C4: at the end of a cycle, a CPU reading of the snapshot above its threshold
\* and every service found stopped each have an active alert in the store.
C4_NewConditionPersisted ==
    CycleOver =>
        /\ info.cpu_percent > config.monitoring.cpu_threshold
            => \E i \in 1..Len(alerts) :
                    alerts[i].alert_type = "High CPU" /\ ~alerts[i].resolved
        /\ \A s \in Cur.stopped : \E i \in AlertsAbout(s) : ~alerts[i].resolved

\* C5: a reading equal to its threshold logs no warning, a reading above it
\* does, for CPU and for memory.
C5_StrictThreshold ==
    pc = "store" =>
        /\ info.cpu_percent = config.monitoring.cpu_threshold
            => "High CPU usage" \notin warnings[1]
        /\ info.memory_percent = config.monitoring.memory_threshold
            => "High memory usage" \notin warnings[1]
        /\ info.cpu_percent > config.monitoring.cpu_threshold
            => "High CPU usage" \in warnings[1]
        /\ info.memory_percent > config.monitoring.memory_threshold
            => "High memory usage" \in warnings[1]

\* A snapshot was evaluated whose CPU reading equals its threshold and whose
\* memory reading exceeds its own: only the memory warning was logged.
C5_Witness ==
    /\ pc = "store"
    /\ info.cpu_percent = config.monitoring.cpu_threshold
    /\ info.memory_percent > config.monitoring.memory_threshold
    /\ warnings = << {"High memory usage"} >>

\* C6: the loop of monitor_services raises the stopped-service condition for
\* exactly the services whose state is not Running.
C6_DownUnlessRunning ==
    CycleOver =>
        \A s \in ServiceNames : (Cur.seen[s] # "Running") <=> (s \in Cur.stopped)

\* C7: the evaluation of a snapshot reports high CPU, high memory and high
\* disk usage exactly when the reading exceeds its configured threshold.
C7_ViolationsMatchThresholds ==
    pc = "store" =>
        /\ "High CPU usage" \in warnings[1]
            <=> info.cpu_percent > config.monitoring.cpu_threshold
        /\ "High memory usage" \in warnings[1]
            <=> info.memory_percent > config.monitoring.memory_threshold
        /\ "disk_threshold" \in DOMAIN config.monitoring
            => ("High disk usage" \in warnings[1]
                    <=> AvgDiskUsage(info.disk_partitions)
                            > 10 * config.monitoring.disk_threshold)

\* C8: in a cycle whose store_metrics failed nothing is collected or
\* evaluated again and no alert is raised.
C8_StoreFailureAbortsCycle ==
    (Len(hist) > 0 /\ Cur.stored = "failed")
        => /\ Cur.collections = 1
           /\ ~Cur.monitored
           /\ Cur.stopped = {}
           /\ Cur.alerted = {}

\* C9: no failed read of a collection aborts the cycle (pc is "crashed" only
\* after a read raised and the exception left run_monitoring_cycle).
C9_ProbeFailureTolerated == pc # "crashed"

\* C10: the row stored for a snapshot none of whose partitions could be read
\* does not carry 0 as its disk usage.
C10_UnreadDiskNotZero ==
    (pc = "export" /\ Cur.stored = "stored" /\ info.disk_partitions = <<>>)
        => system_metrics[Len(system_metrics)].disk_usage_percent # 0

-----------------------------------------------------------------------------
(* Properties of the service *)

\* The values the design accepts: an interval of at least one unit and
\* thresholds within 0..100.
ValidConfig(cfg) ==
    /\ cfg.monitoring.interval_minutes >= 1
    /\ cfg.monitoring.cpu_threshold \in 0..100
    /\ cfg.monitoring.memory_threshold \in 0..100

\* C11: no failure inside a cycle ends the process: the service never takes
\* the fatal exit of the wrapper (it ends on the shutdown signal only).
C11_FailureNeverEndsProcess == sched.at # "exited"

\* C12: a cycle starts only when every cycle started before it has returned:
\* no two cycles are in progress at once, the initial one included.
C12_NoOverlap ==
    \A c \in 1..(Len(hist) - 1) : hist[c].done

\* A scheduled cycle is still running, with a positive interval, at a moment
\* when the run after the one that started it would have been due: that tick
\* started nothing.
C12_Witness ==
    /\ sched.at = "loop"
    /\ pc = "alerting"
    /\ Len(hist) >= 2
    /\ ~Cur.done
    /\ config.monitoring.interval_minutes >= 1
    /\ now >= NextRun(sched.next_run, config)

\* C13: the shutdown signal never leaves a cycle whose snapshot is stored
\* and whose services were not yet monitored.
C13_ShutdownAfterCycle ==
    ~(/\ sched.at = "stopped"
      /\ Len(hist) > 0
      /\ Cur.stored = "stored"
      /\ ~Cur.monitored)

\* C20: no cycle runs with a configuration holding an invalid value.
C20_InvalidConfigNeverRuns ==
    Len(hist) > 0 => ValidConfig(config)

-----------------------------------------------------------------------------
(* Properties of the notification channels *)

\* The channels a configuration configures: enabled, with their credentials.
ConfiguredChannels(cfg) ==
    (IF SlackConfigured(cfg.slack) THEN {"slack"} ELSE {})
    \cup (IF TeamsConfigured(cfg.teams) THEN {"teams"} ELSE {})

\* C14: when the alerting of the channels of a configuration that configures
\* some is over, it has not raised and every configured channel has a
\* recorded outcome.
C14_EveryChannelHasOutcome ==
    (manager.at \in {"raised", "sent"} /\ ConfiguredChannels(manager.config) # {}) =>
        /\ manager.at = "sent"
        /\ \A ch \in ConfiguredChannels(manager.config) : ch \in DOMAIN manager.results

-----------------------------------------------------------------------------
(* Properties of the readers *)

\* A report was generated, a history was served.
ReportDone == response.kind = "report" /\ "metrics_timeline" \in DOMAIN response.report
HistoryDone == response.kind = "history" /\ response.status = 200

\* The cutoff of the last request.
Since == response.request.at - response.request.hours * MinutesPerHour

\* A timestamp truncated to the hour.
TruncatedToHour(t) == t - (t % MinutesPerHour)

\* The stored snapshots of the window of the report, and those of one hour.
InReportWindow == {i \in 1..Len(system_metrics) : system_metrics[i].timestamp > Since}
SamplesOfHour(h) == {i \in InReportWindow : TruncatedToHour(system_metrics[i].timestamp) = h}
HoursWithSamples == {TruncatedToHour(system_metrics[i].timestamp) : i \in InReportWindow}

\* C15: the timeline of a report has exactly one bucket for each hour that
\* has a stored snapshot in the window, none for another hour, and every
\* bucket counts at least one sample.
C15_SparseBuckets ==
    ReportDone =>
        LET timeline == response.report.metrics_timeline
        IN  /\ Len(timeline) = Cardinality(HoursWithSamples)
            /\ {TruncatedToHour(timeline[k].hour) : k \in 1..Len(timeline)} = HoursWithSamples
            /\ \A k \in 1..Len(timeline) : timeline[k].samples >= 1

\* A 24-hour report over a store with snapshots in hours 1 and 3 and none in
\* hour 2 has exactly two buckets.
C15_Witness ==
    /\ ReportDone
    /\ response.request.hours = 24
    /\ HoursWithSamples = {60, 180}
    /\ Len(response.report.metrics_timeline) = 2

\* C16: every bucket of the timeline carries the hour its samples truncate
\* to, their number and the maxima of their CPU and memory readings, and the
\* sample counts add up to the snapshots of the window.
C16_BucketContents ==
    ReportDone =>
        LET timeline == response.report.metrics_timeline
            Total[k \in 0..Len(timeline)] ==
                IF k = 0 THEN 0 ELSE Total[k - 1] + timeline[k].samples
        IN  /\ \A k \in 1..Len(timeline) :
                    LET of == SamplesOfHour(TruncatedToHour(timeline[k].hour))
                    IN  /\ timeline[k].hour = TruncatedToHour(timeline[k].hour)
                        /\ timeline[k].samples = Cardinality(of)
                        /\ \A i \in of :
                            /\ system_metrics[i].cpu_percent <= timeline[k].max_cpu
                            /\ system_metrics[i].memory_percent <= timeline[k].max_memory
                        /\ \E i \in of : system_metrics[i].cpu_percent = timeline[k].max_cpu
                        /\ \E i \in of : system_metrics[i].memory_percent = timeline[k].max_memory
            /\ Total[Len(timeline)] = Cardinality(InReportWindow)

\* C17: the active alerts of a report count exactly the stored alerts that
\* are unresolved and were observed at or after the cutoff.
C17_ActiveSinceInclusive ==
    ReportDone =>
        LET active == response.report.active_alerts
            Total[k \in 0..Len(active)] ==
                IF k = 0 THEN 0 ELSE Total[k - 1] + active[k].count
        IN  Total[Len(active)] =
                Cardinality({i \in 1..Len(alerts) :
                    ~alerts[i].resolved /\ alerts[i].timestamp >= Since})

\* The snapshot a history entry carries.
HistorySnapshot(entry) ==
    [timestamp |-> entry.time,
     cpu_percent |-> entry.cpu,
     memory_percent |-> entry.memory,
     disk_usage_percent |-> entry.disk]

\* The snapshot a stored row holds, its service states decoded.
StoredSnapshot(row) ==
    [timestamp |-> row.timestamp,
     cpu_percent |-> row.cpu_percent,
     memory_percent |-> row.memory_percent,
     memory_available_gb |-> row.memory_available_gb,
     disk_usage_percent |-> row.disk_usage_percent,
     services |->
        [s \in ServiceNames |->
            (CHOOSE entry \in {row.service_status[k] : k \in 1..Len(row.service_status)} :
                entry[1] = s)[2]]]

\* C18: every stored snapshot of the interval a history was asked for is
\* returned equal in every field, and the latest metrics equal the newest
\* stored snapshot.
C18_RoundTrip ==
    /\ HistoryDone =>
            \A i \in InReportWindow :
                \E k \in 1..Len(response.data) :
                    HistorySnapshot(response.data[k]) = StoredSnapshot(system_metrics[i])
    /\ (response.kind = "latest" /\ "timestamp" \in DOMAIN response.metrics) =>
            response.metrics = StoredSnapshot(system_metrics[Len(system_metrics)])

\* C19: a history holds, in ascending order, exactly the stored snapshots
\* stamped at or after its start and before its end.
C19_HalfOpenRange ==
    HistoryDone =>
        /\ {response.data[k].time : k \in 1..Len(response.data)} =
                {system_metrics[i].timestamp : i \in
                    {j \in 1..Len(system_metrics) :
                        /\ system_metrics[j].timestamp >= Since
                        /\ system_metrics[j].timestamp < response.request.at}}
        /\ \A k \in 1..(Len(response.data) - 1) :
                response.data[k].time < response.data[k + 1].time

-----------------------------------------------------------------------------
(* Properties of the phases of a cycle *)

\* C21: in every cycle metrics are collected at most once, and thresholds
\* are evaluated (warnings logged) only when the outcome of the store of
\* the snapshot is known.
C21_PhasesInOrder ==
    Len(hist) > 0 =>
        /\ Cur.collections <= 1
        /\ Len(warnings) > 0 => Cur.stored # "no"

\* The service states the snapshot stored by the current cycle records.
StoredStates == JsonLoads(system_metrics[Len(system_metrics)].service_status)

\* C26: at the end of a cycle that stored its snapshot, the services alerted
\* as stopped are exactly those the stored snapshot records as stopped.
C26_AlertedAsStored ==
    (CycleOver /\ Cur.stored = "stored") =>
        \A s \in ServiceNames :
            (s \in Cur.stopped) <=> (StoredStates[s] = "Stopped")

-----------------------------------------------------------------------------
(* Properties of the construction of a NotificationManager *)

\* C27: the construction of a NotificationManager succeeds and leaves one
\* notifier per configured channel: Slack iff enabled with token and
\* channel, Teams iff enabled with a webhook.
C27_OneNotifierPerChannel ==
    manager.at \in {"raised", "sent"} =>
        LET built == SetupNotifiers(manager.config)
        IN  /\ ~built.raised
            /\ {built.notifiers[k] : k \in 1..Len(built.notifiers)}
                    = ConfiguredChannels(manager.config)
            /\ Len(built.notifiers) = Cardinality(ConfiguredChannels(manager.config))

-----------------------------------------------------------------------------
(* Frame of the readers *)

\* C25: no step of generate_report, get_latest_metrics or api_history,
\* whether it succeeds or fails, changes the rows of system_metrics or of
\* alerts.
C25_ReadersReadOnly ==
    [][system_metrics' = system_metrics /\ alerts' = alerts]_vars

\* A reader failed on a full store: a request for a history was answered
\* with status 500 while the store holds snapshots and alerts.
C25_Witness ==
    /\ response.kind = "history"
    /\ response.status = 500
    /\ Len(system_metrics) = MaxRows
    /\ Len(alerts) = MaxAlertRows

-----------------------------------------------------------------------------
(* Properties of the service across restarts *)

\* The cycle in progress is the initial cycle of a restarted process.
FirstCycleAfterRestart == sched.at = "wrapper" /\ Len(hist) >= 2

\* C22: the first cycle after a restart sends no notification for a service
\* that it finds stopped and for which the last cycle before the restart
\* had already notified.
C22_SilentAfterRestart ==
    FirstCycleAfterRestart =>
        \A s \in ServiceNames :
            (s \in hist[Len(hist) - 1].alerted /\ s \in Cur.stopped)
                => s \notin Cur.alerted

\* C23: no step of a cycle, of a reader or of a restart removes an alert:
\* every stored row is still stored after the step, with its id, type and
\* message.
C23_AlertsNeverDeleted ==
    [][\A i \in 1..Len(alerts) :
            \E j \in 1..Len(alerts') :
                /\ alerts'[j].id = alerts[i].id
                /\ AlertId(alerts'[j]) = AlertId(alerts[i])]_vars

\* The service was restarted on a store that holds alerts, raised others in
\* its new run, and a report was generated.
C23_Witness ==
    /\ FirstCycleAfterRestart
    /\ Cur.alerted # {}
    /\ Len(alerts) >= 2
    /\ response.kind = "report"

-----------------------------------------------------------------------------
(* Properties of the loaded configuration *)

\* C28: after the load, every option the cycle reads is present in the
\* configuration, and no first collection ends on a missing option.
C28_EveryOptionPresent ==
    sched.at = "direct" =>
        /\ {"interval_minutes", "critical_services", "cpu_threshold", "memory_threshold"}
                \subseteq DOMAIN config.monitoring
        /\ "enabled" \in DOMAIN config.alerting
        /\ "auto_export" \in DOMAIN config.export
        /\ pc # "crashed"

-----------------------------------------------------------------------------
(* Properties of the health report *)

\* A service is running when the last word of its status says so.
ReportsRunning(status) == status[Len(status)] = "Running"

\* The band of a score.
Band(score) ==
    CASE score >= 90 -> "Excellent"
      [] score \in 75..89 -> "Good"
      [] score \in 60..74 -> "Fair"
      [] score \in 40..59 -> "Poor"
      [] OTHER -> "Critical"

\* The deductions of the metrics of the report.
Deductions ==
    LET m == health.metrics
        down == {name \in DOMAIN m.services : ~ReportsRunning(m.services[name])}
        over == {i \in 1..Len(m.disk_space.disks) :
                    /\ "PercentUsed" \in DOMAIN m.disk_space.disks[i]
                    /\ m.disk_space.disks[i].PercentUsed > 90}
        memory == IF /\ m.memory.present
                     /\ "PercentUsed" \in DOMAIN m.memory.memory
                     /\ m.memory.memory.PercentUsed > 90
                  THEN 1 ELSE 0
    IN  5 * Cardinality(down) + 10 * Cardinality(over) + 10 * memory

-----------------------------------------------------------------------------
(* Properties of monitor_service *)

\* The checks made so far that observed Running.
ObservedRunning(k) == service_check.checks[k] = <<"Running">>

\* The number of checks a call of monitor_service may make.
ChecksAllowed ==
    IF service_check.max_checks > 0 THEN service_check.max_checks ELSE 0

\* monitor_service is over: it returned, or an exception left it.
ServiceCheckOver == service_check.at \in {"returned", "raised"}

\* At most max_checks checks; no check after one that did not observe
\* Running; False returned at such a check; True returned iff max_checks
\* checks were made and all observed Running.
ServiceCheckVerdict ==
    LET made == Len(service_check.checks)
        returned(b) == service_check.at = "returned" /\ service_check.result = b
    IN  /\ made <= ChecksAllowed
        /\ \A k \in 1..(made - 1) : ObservedRunning(k)
        /\ (made > 0 /\ ~ObservedRunning(made)) => returned(FALSE)
        /\ returned(FALSE) => (made > 0 /\ ~ObservedRunning(made))
        /\ returned(TRUE) => (made = ChecksAllowed /\ \A k \in 1..made : ObservedRunning(k))
        /\ (ServiceCheckOver /\ made = ChecksAllowed /\ \A k \in 1..made : ObservedRunning(k))
                => returned(TRUE)

\* C30: monitor_service always terminates, after at most max_checks checks,
\* with False at the first check that is not Running and with True iff all
\* max_checks checks observed Running.
C30_TerminatesWithVerdict ==
    /\ []ServiceCheckVerdict
    /\ <>ServiceCheckOver

\* A call with the largest max_checks returned False at its second check,
\* having slept once and made no third check.
C30_Witness ==
    /\ service_check.at = "returned"
    /\ service_check.result = FALSE
    /\ service_check.max_checks = MaxChecks
    /\ Len(service_check.checks) = 2
    /\ now > 1

-----------------------------------------------------------------------------
(* Properties of writers and readers *)

\* The columns of the two tables, and the fields of the latest metrics.
MetricsColumns == {"timestamp", "cpu_percent", "memory_percent", "memory_available_gb",
                   "disk_usage_percent", "service_status"}
AlertColumns == {"id", "timestamp", "alert_type", "message", "resolved"}
LatestFields == {"timestamp", "cpu_percent", "memory_percent", "memory_available_gb",
                 "disk_usage_percent", "services"}

\* The number of writes that were committed: snapshots, and alerts.
CommittedSnapshots == Cardinality({c \in 1..Len(hist) : hist[c].stored = "stored"})
CommittedAlerts ==
    LET Total[c \in 0..Len(hist)] ==
            IF c = 0 THEN 0 ELSE Total[c - 1] + Cardinality(hist[c].alerted)
    IN  Total[Len(hist)]

\* C24: at every moment, during a write and after the writer was killed in
\* the middle of one, the rows a reader can see are the rows of the
\* committed writes, each with all its columns, and the latest metrics a
\* reader returned are empty or have every field.
C24_WritesAtomic ==
    /\ \A i \in 1..Len(system_metrics) : DOMAIN system_metrics[i] = MetricsColumns
    /\ \A i \in 1..Len(alerts) : DOMAIN alerts[i] = AlertColumns
    /\ Len(system_metrics) = CommittedSnapshots
    /\ Len(alerts) = CommittedAlerts
    /\ response.kind = "latest" =>
            \/ response.metrics = EmptyMapping
            \/ DOMAIN response.metrics = LatestFields

\* The dashboard asked for the latest metrics while the insert of the
\* second snapshot was not yet committed: it was given the first snapshot.
C24_Witness ==
    /\ pc = "commit_metrics"
    /\ txn # <<>>
    /\ Len(system_metrics) = 1
    /\ response.kind = "latest"
    /\ response.request.at = now
    /\ response.metrics # EmptyMapping
    /\ response.metrics.timestamp = system_metrics[1].timestamp

====
